---------------------------- MODULE Spec2Model ----------------------------
(***************************************************************************)
(* Verification model of the geo-partitioned harvest orchestrator:         *)
(*   src/scraper/grid.py    GridGenerator.generate_grid                    *)
(*   src/scraper/engine.py  ScraperEngine.run                              *)
(*   src/server.py          run_scraper_async, stop_job, create_job, ...   *)
(*   src/main.py            main                                           *)
(*                                                                         *)
(* The module holds several specifications over one set of variables:      *)
(*   SpecGrid  generate_grid applied to bounded inputs                     *)
(*   SpecKey   the identity-key derivation applied to bounded records      *)
(*   SpecFeed  one collection pass of ScraperEngine.run                    *)
(*   SpecPages the item loop of one pass with the pages of its context     *)
(*   Spec      one server job: create_job, the runner thread and the       *)
(*             stop-request handlers, interleaved at every database access *)
(* A specification leaves the variables of the others at their idle value. *)
(*                                                                         *)
(* Strings are sequences of code points (32 is the space, 65.."Z" the      *)
(* upper-case letters, 97.. the lower-case ones); Python's None is NoneVal. *)
(***************************************************************************)
EXTENDS Integers, Sequences, FiniteSets, TLC

VARIABLES
    \* ---- SpecGrid: generate_grid(center_lat, center_lon, size_km, step_km)
    gpc,            \* "idle" | "call" | "done"
    gargs,          \* the arguments of the call
    coordinates,    \* the list generate_grid returns
    \* ---- SpecKey: the key derivation of the dedup loop
    kpc,            \* "idle" | "call" | "done"
    item,           \* the record the key is derived from
    key,            \* the derived key
    \* ---- SpecFeed: ScraperEngine.run(search_term, total, lat, lon, zoom)
    fpc,            \* where the pass is: "idle" | "start" | "searchbox" |
                    \* "feedwait" | "loop" | "poll" | "scroll" | "reread" |
                    \* "items" | "done"
    fargs,          \* the arguments of the call
    feed,           \* the page: how many div[role="article"] it shows now
    path,           \* "none" | "coord" (viewport URL) | "typed" (search box)
    elements,       \* the handles the last query_selector_all returned
    previous_count,
    no_change_counter,
    results,        \* the records harvested so far
    idx,            \* how many of elements[:total] the item loop has taken
    lastPolled,     \* history: <<count>> of the last poll, <<>> before it
    sameRun,        \* history: consecutive polls that equalled the poll before
    \* ---- SpecPages: the item loop of run with _process_single_item
    ppc,            \* "idle" | "next" | "click" | "open" | "enrich" | "close" |
                    \* "tail" | "cleanup" | "done"
    item_i,         \* how many entries the loop has taken
    timer,          \* the 60 s timeout of wait_for: "off" | "armed" |
                    \* "swallowed" (it cancelled the coroutine, and a bare
                    \* except caught the CancelledError) | "fired"
    pages,          \* how many pages besides the main page the context holds
    harvested,      \* how many records the loop has appended
    ended,          \* history: how the last item ended: "none" | "record" |
                    \* "timeout" | "exception"
    \* ---- SpecDedup and Spec: the locals of the dedup loop
    all_results,    \* the accumulated records, in insertion order
    unique_ids,     \* the keys seen
    offered,        \* SpecDedup history: every record offered so far
    \* ---- Spec: one job of src/server.py
    cfg,            \* the job's config: total, grid_size
    status,         \* the job document: status
    db_results,     \*                   results
    results_count,  \*                   results_count
    error,          \*                   error ("none" for None)
    active_jobs,    \* the ids registered in the module's active_jobs
    cpc,            \* create_job: "idle" | "start" | "register" | "done"
    rpc,            \* the runner thread, run_scraper_async: where it is
    spc,            \* stop_job, per request: "idle" | "set" | "done" |
                    \* "rejected"
    mode,           \* "none" | "grid" | "direct" | "fallback"
    grid_points,    \* the tiles of the run
    ti,             \* the index i of the for loop over grid_points
    run_results,    \* the local `results` of the single-pass branches
    exc,            \* the exception being handled ("none" when there is none)
    faults,         \* history: how many database calls have raised
    runs,           \* history: how many scraper.run calls were started
    acceptedAt,     \* history: <<n>> when a stop request wrote `stopping`
                    \* while pass n was in flight, <<>> otherwise
    \* ---- SpecTiles: the tile loop of run_scraper_async, record by record
    tpc,            \* "idle" | "loop" | "run" | "merge" | "done"
    tile_points,    \* grid_points
    tile_i,         \* the index i of the for loop
    total_target,
    tile_batch,     \* batch_results of the tile in hand
    tile_j,         \* how many records of tile_batch the dedup loop has taken
    visited,        \* history: the tile of every scraper.run call, in call
                    \* order
    \* ---- SpecLog: the logs array of a job document
    logs,
    appended        \* history: every message given to log_to_job, in order

gridVars == <<gpc, gargs, coordinates>>
keyVars  == <<kpc, item, key>>
feedVars == <<fpc, fargs, feed, path, elements, previous_count,
              no_change_counter, results, idx, lastPolled, sameRun>>
pageVars == <<ppc, item_i, timer, pages, harvested, ended>>
accVars  == <<all_results, unique_ids, offered>>
docVars  == <<status, db_results, results_count, error>>
locVars  == <<mode, grid_points, ti, run_results, exc>>
histVars == <<faults, runs, acceptedAt>>
jobVars  == <<cfg, docVars, active_jobs, cpc, rpc, spc, locVars, histVars>>
tileVars == <<tpc, tile_points, tile_i, total_target, tile_batch, tile_j, visited>>
logVars  == <<logs, appended>>
vars     == <<gridVars, keyVars, feedVars, pageVars, accVars, jobVars, tileVars,
             logVars>>

---------------------------------------------------------------------------
(* Python helpers *)

NoneVal == <<-1>>

Min(a, b) == IF a <= b THEN a ELSE b

Abs(a) == IF a < 0 THEN -a ELSE a

\* int(n / d) for d > 0: Python's int() truncates toward zero
IntTrunc(n, d) == IF n >= 0 THEN n \div d ELSE -((-n) \div d)

\* x or ""
OrEmpty(x) == IF x = NoneVal THEN <<>> ELSE x

Max(a, b) == IF a >= b THEN a ELSE b

TakeAll(s, n) == s

\* s[:n]; a negative n counts from the end
Take(s, n) ==
    IF n >= 0 THEN SubSeq(s, 1, Min(Len(s), n))
    ELSE SubSeq(s, 1, Max(Len(s) + n, 0))

\* an optional number is <<>> (None) or <<v>>; Python's truth value of it
Truthy(x) == x # <<>> /\ x[1] # 0

IsSpace(c) == c \in {9, 10, 13, 32}

LowerChar(c) == IF c >= 65 /\ c <= 90 THEN c + 32 ELSE c

\* str.lower()
Lower(s) == [i \in 1..Len(s) |-> LowerChar(s[i])]

RECURSIVE LStrip(_)
LStrip(s) == IF s # <<>> /\ IsSpace(Head(s)) THEN LStrip(Tail(s)) ELSE s

RECURSIVE RStrip(_)
RStrip(s) ==
    IF s # <<>> /\ IsSpace(s[Len(s)]) THEN RStrip(SubSeq(s, 1, Len(s) - 1)) ELSE s

\* str.strip()
Strip(s) == RStrip(LStrip(s))

\* every sequence over S of length at most n
SeqsUpTo(S, n) == UNION {[1..k -> S] : k \in 0..n}

\* n copies of c
Rep(c, n) == [i \in 1..n |-> c]

---------------------------------------------------------------------------
(* GridGenerator.generate_grid, src/scraper/grid.py                        *)
(*                                                                         *)
(* Coordinates are exact integers counting 1/KmPerDegree of a degree, so   *)
(* that step_km / 111.0 is exact.  cos(radians(center_lat)) is exact at    *)
(* the latitudes the inputs are drawn from (0 and +-60 degrees).           *)

KmPerDegree == 111

Deg(d) == d * KmPerDegree

CosNum(center_lat) == 1

CosDen(center_lat) == IF Abs(center_lat) = Deg(60) THEN 2 ELSE 1

\* lat_step_deg = step_km / 111.0
LatStepDeg(step_km) == Deg(step_km) \div KmPerDegree

\* lon_step_deg = step_km / (111.0 * math.cos(math.radians(center_lat)))
LonStepDeg(step_km, center_lat) ==
    (Deg(step_km) * CosDen(center_lat)) \div (KmPerDegree * CosNum(center_lat))

GridStepsOffByOne(size_km, step_km) == IntTrunc(size_km, step_km) + 1

\* steps = int(size_km / step_km)
GridSteps(size_km, step_km) == IntTrunc(size_km, step_km)

GridStartSkewed(center, steps, step_deg) == center - ((steps + 1) * step_deg)

\* current_lat = center_lat - (steps * lat_step_deg), start_lon likewise
GridStart(center, steps, step_deg) == center - (steps * step_deg)

\* the inner loop: n more points of one row
RECURSIVE GridRow(_, _, _, _)
GridRow(current_lat, current_lon, lon_step_deg, n) ==
    IF n <= 0 THEN <<>>
    ELSE <<<<current_lat, current_lon>>>>
         \o GridRow(current_lat, current_lon + lon_step_deg, lon_step_deg, n - 1)

\* the outer loop: n more rows, each of side points
RECURSIVE GridRows(_, _, _, _, _, _)
GridRows(current_lat, start_lon, lat_step_deg, lon_step_deg, side, n) ==
    IF n <= 0 THEN <<>>
    ELSE GridRow(current_lat, start_lon, lon_step_deg, side)
         \o GridRows(current_lat + lat_step_deg, start_lon, lat_step_deg,
                     lon_step_deg, side, n - 1)

generate_grid(center_lat, center_lon, size_km, step_km) ==
    LET lat_step_deg == LatStepDeg(step_km)
        lon_step_deg == LonStepDeg(step_km, center_lat)
        steps        == GridSteps(size_km, step_km)
        current_lat  == GridStart(center_lat, steps, lat_step_deg)
        start_lon    == GridStart(center_lon, steps, lon_step_deg)
    IN  GridRows(current_lat, start_lon, lat_step_deg, lon_step_deg,
                 steps * 2 + 1, steps * 2 + 1)

MaxRadiusKm == 6

MaxSpacingKm == 3

GridLats == {Deg(-60), Deg(0), Deg(27), Deg(60)}

GridLons == {Deg(-120), Deg(0), Deg(85)}

GridIdle ==
    /\ gpc = "idle"
    /\ gargs = [center_lat |-> 0, center_lon |-> 0, size_km |-> 0, step_km |-> 1]
    /\ coordinates = <<>>

GridInit ==
    /\ gpc = "call"
    /\ gargs \in [center_lat : GridLats, center_lon : GridLons,
                  size_km : 0..MaxRadiusKm, step_km : 1..MaxSpacingKm]
    /\ coordinates = <<>>

GenerateGrid ==
    /\ gpc = "call"
    /\ coordinates' = generate_grid(gargs.center_lat, gargs.center_lon,
                                    gargs.size_km, gargs.step_km)
    /\ gpc' = "done"
    /\ UNCHANGED gargs

---------------------------------------------------------------------------
(* The identity key of the dedup loop, src/server.py 131-141 and, with the *)
(* same text, src/main.py 118-130                                          *)

Bar == <<124>>

SnippetLen == 20

KeyPhoneLast(name_clean, phone_clean, website_clean, raw_snippet) ==
    IF website_clean # <<>> THEN name_clean \o Bar \o website_clean
    ELSE IF phone_clean # <<>> THEN name_clean \o Bar \o phone_clean
    ELSE name_clean \o Bar \o raw_snippet

\* if phone_clean: ... elif website_clean: ... else: ...
KeyChoice(name_clean, phone_clean, website_clean, raw_snippet) ==
    IF phone_clean # <<>> THEN name_clean \o Bar \o phone_clean
    ELSE IF website_clean # <<>> THEN name_clean \o Bar \o website_clean
    ELSE name_clean \o Bar \o raw_snippet

ItemKey(it) ==
    LET name_clean    == Strip(Lower(OrEmpty(it.name)))
        phone_clean   == Strip(OrEmpty(it.phone))
        website_clean == Strip(OrEmpty(it.website))
        raw_snippet   == Strip(Lower(Take(OrEmpty(it.raw_text), SnippetLen)))
    IN  KeyChoice(name_clean, phone_clean, website_clean, raw_snippet)

MaxNameLen == 2

KeyNames == SeqsUpTo({32, 65, 97}, MaxNameLen) \cup {NoneVal}

KeyPhones == {NoneVal, <<>>, <<32>>, <<53>>, <<32, 53, 32>>, <<53, 32, 53>>}

KeyWebsites == {NoneVal, <<>>, <<32>>, <<88>>, <<32, 88>>}

\* raw texts whose 19th..21st characters decide what the [:20] slice keeps
KeyRawTexts ==
    {NoneVal, <<>>, <<32, 66, 32>>}
    \cup {Rep(32, 1) \o Rep(67, n) \o t : n \in 17..19, t \in {<<32, 68>>, <<68, 32, 69>>}}

KeyIdle ==
    /\ kpc = "idle"
    /\ item = [name |-> <<>>, phone |-> NoneVal, website |-> NoneVal, raw_text |-> <<>>]
    /\ key = <<>>

KeyInit ==
    /\ kpc = "call"
    /\ item \in [name : KeyNames, phone : KeyPhones, website : KeyWebsites,
                 raw_text : KeyRawTexts]
    /\ key = <<>>

DeriveKey ==
    /\ kpc = "call"
    /\ key' = ItemKey(item)
    /\ kpc' = "done"
    /\ UNCHANGED item

---------------------------------------------------------------------------
(* The dedup loop, src/server.py 130-146 and src/main.py 117-135           *)

Rec(n, p, w, r) == [name |-> n, phone |-> p, website |-> w, raw_text |-> r]

\* three entities; RecA and RecA2 are the same entity (key "a|5") read from
\* two tiles with different website and text
RecA == Rec(<<97>>, <<53>>, NoneVal, <<120>>)

RecA2 == Rec(<<32, 65>>, <<53, 32>>, <<119>>, <<121>>)

RecB == Rec(<<98>>, NoneVal, <<119>>, <<120>>)

RecC == Rec(<<98>>, NoneVal, NoneVal, <<120>>)

SmallRecs == {RecA, RecA2, RecB, RecC}

\* set.add(k)
SetAdd(S, k) == S \cup {k}

InsertAlways(acc, it) ==
    [all_results |-> Append(acc.all_results, it),
     unique_ids |-> SetAdd(acc.unique_ids, ItemKey(it))]

InsertOrReplace(acc, it) ==
    IF ItemKey(it) \notin acc.unique_ids
    THEN [all_results |-> Append(acc.all_results, it),
          unique_ids |-> SetAdd(acc.unique_ids, ItemKey(it))]
    ELSE [all_results |-> [k \in 1..Len(acc.all_results) |->
                              IF ItemKey(acc.all_results[k]) = ItemKey(it)
                              THEN it ELSE acc.all_results[k]],
          unique_ids |-> acc.unique_ids]

\* if key not in unique_ids: unique_ids.add(key); all_results.append(item)
DedupInsert(acc, it) ==
    LET k == ItemKey(it)
    IN  IF k \notin acc.unique_ids
        THEN [all_results |-> Append(acc.all_results, it),
              unique_ids |-> SetAdd(acc.unique_ids, k)]
        ELSE acc

\* for item in batch_results: ..., over batch[lo..hi] from left to right.
\* The range is split in halves, and the left half's outcome is evaluated
\* (by the test on it) before the right half is folded, so that a batch of
\* hundreds of records is not one deep chain of pending evaluations.
RECURSIVE DedupRange(_, _, _, _)
DedupRange(acc, batch, lo, hi) ==
    IF lo > hi THEN acc
    ELSE IF lo = hi THEN DedupInsert(acc, batch[lo])
    ELSE LET mid  == (lo + hi) \div 2
             left == DedupRange(acc, batch, lo, mid)
         IN  IF Len(left.all_results) >= 0 /\ left.unique_ids # {}
             THEN DedupRange(left, batch, mid + 1, hi)
             ELSE acc

DedupFresh(acc, batch) ==
    DedupRange([all_results |-> <<>>, unique_ids |-> {}], batch, 1, Len(batch))

DedupAll(acc, batch) == DedupRange(acc, batch, 1, Len(batch))

MaxOffered == 5

AccIdle ==
    /\ all_results = <<>>
    /\ unique_ids = {}
    /\ offered = <<>>

\* the loop body for the next record of some tile's batch
OfferRecord ==
    /\ Len(offered) < MaxOffered
    /\ \E it \in SmallRecs :
        LET acc == DedupInsert([all_results |-> all_results,
                                unique_ids |-> unique_ids], it)
        IN  /\ all_results' = acc.all_results
            /\ unique_ids' = acc.unique_ids
            /\ offered' = Append(offered, it)

---------------------------------------------------------------------------
(* ScraperEngine.run, src/scraper/engine.py 281-385: one collection pass.  *)
(* A feed entry is its position in the feed; the page may show more        *)
(* entries at any moment (FeedGrows), whatever the pass is doing.          *)

StallLimit == 5

MaxFeed == 3

MaxTotal == 4

StalledLate(counter) == counter > StallLimit

\* if no_change_counter >= 5: break
Stalled(counter) == counter >= StallLimit

\* page.query_selector_all('div[role="article"]')
QueryArticles == [i \in 1..feed |-> i]

\* if lat and lon and zoom
UseViewport(a) == Truthy(a.lat) /\ Truthy(a.lon) /\ Truthy(a.zoom)

FeedArgs ==
    {[total |-> t, lat |-> <<>>, lon |-> <<>>, zoom |-> <<>>] : t \in 0..MaxTotal}
    \cup [total : 0..MaxTotal, lat : {<<0>>, <<Deg(27)>>},
          lon : {<<0>>, <<Deg(85)>>}, zoom : {<<15>>}]

FeedIdle ==
    /\ fpc = "idle"
    /\ fargs = [total |-> 0, lat |-> <<>>, lon |-> <<>>, zoom |-> <<>>]
    /\ feed = 0
    /\ path = "none"
    /\ elements = <<>>
    /\ previous_count = 0
    /\ no_change_counter = 0
    /\ results = <<>>
    /\ idx = 0
    /\ lastPolled = <<>>
    /\ sameRun = 0

FeedInit ==
    /\ fpc = "start"
    /\ fargs \in FeedArgs
    /\ feed \in 0..MaxFeed
    /\ path = "none"
    /\ elements = <<>>
    /\ previous_count = 0
    /\ no_change_counter = 0
    /\ results = <<>>
    /\ idx = 0
    /\ lastPolled = <<>>
    /\ sameRun = 0

\* the page renders more entries
FeedGrows ==
    /\ fpc \notin {"idle", "done"}
    /\ feed < MaxFeed
    /\ feed' = feed + 1
    /\ UNCHANGED <<fpc, fargs, path, elements, previous_count,
                   no_change_counter, results, idx, lastPolled, sameRun>>

\* lines 288-298: the URL, page.goto
Navigate ==
    /\ fpc = "start"
    /\ path' = IF UseViewport(fargs) THEN "coord" ELSE "typed"
    /\ fpc' = IF UseViewport(fargs) THEN "feedwait" ELSE "searchbox"
    /\ UNCHANGED <<fargs, feed, elements, previous_count, no_change_counter,
                   results, idx, lastPolled, sameRun>>

\* lines 304-319: the search box is found (at once or on the retry) and the
\* term typed, or it is not and the pass returns []
SearchBox ==
    /\ fpc = "searchbox"
    /\ \/ fpc' = "feedwait" /\ UNCHANGED results
       \/ fpc' = "done" /\ results' = <<>>
    /\ UNCHANGED <<fargs, feed, path, elements, previous_count,
                   no_change_counter, idx, lastPolled, sameRun>>

\* lines 321-334: wait for the feed (a timeout only sleeps), results = [],
\* no_change_counter = 0, previous_count = 0
WaitFeed ==
    /\ fpc = "feedwait"
    /\ results' = <<>>
    /\ no_change_counter' = 0
    /\ previous_count' = 0
    /\ fpc' = "loop"
    /\ UNCHANGED <<fargs, feed, path, elements, idx, lastPolled, sameRun>>

\* line 336: while len(results) < total
LoopTest ==
    /\ fpc = "loop"
    /\ fpc' = IF Len(results) < fargs.total THEN "poll" ELSE "reread"
    /\ UNCHANGED <<fargs, feed, path, elements, previous_count,
                   no_change_counter, results, idx, lastPolled, sameRun>>

PollForgetful ==
    /\ fpc = "poll"
    /\ elements' = QueryArticles
    /\ no_change_counter' = 0
    /\ previous_count' = Len(QueryArticles)
    /\ fpc' = "scroll"
    /\ sameRun' = IF lastPolled = <<Len(QueryArticles)>>
                  THEN Min(sameRun + 1, StallLimit) ELSE 0
    /\ lastPolled' = <<Len(QueryArticles)>>
    /\ UNCHANGED <<fargs, feed, path, results, idx>>

\* lines 337-349: one poll and the stall test
Poll ==
    /\ fpc = "poll"
    /\ LET current_count == Len(QueryArticles)
           counter       == IF current_count = previous_count
                            THEN no_change_counter + 1 ELSE 0
       IN  /\ elements' = QueryArticles
           /\ no_change_counter' = counter
           /\ previous_count' = current_count
           /\ fpc' = IF Stalled(counter) THEN "reread" ELSE "scroll"
           /\ sameRun' = IF lastPolled = <<current_count>> THEN sameRun + 1 ELSE 0
           /\ lastPolled' = <<current_count>>
    /\ UNCHANGED <<fargs, feed, path, results, idx>>

\* lines 351-359: scroll, settle, if len(elements) >= total: break
Scroll ==
    /\ fpc = "scroll"
    /\ fpc' = IF Len(elements) >= fargs.total THEN "reread" ELSE "loop"
    /\ UNCHANGED <<fargs, feed, path, elements, previous_count,
                   no_change_counter, results, idx, lastPolled, sameRun>>

\* line 361: the entries are read again after the loop
Reread ==
    /\ fpc = "reread"
    /\ elements' = QueryArticles
    /\ idx' = 0
    /\ fpc' = "items"
    /\ UNCHANGED <<fargs, feed, path, previous_count, no_change_counter,
                   results, lastPolled, sameRun>>

HarvestItemAbort ==
    /\ fpc = "items"
    /\ idx < Len(Take(elements, fargs.total))
    /\ \/ results' = Append(results, Take(elements, fargs.total)[idx + 1]) /\ fpc' = fpc
       \/ UNCHANGED results /\ fpc' = "done"
    /\ idx' = idx + 1
    /\ UNCHANGED <<fargs, feed, path, elements, previous_count,
                   no_change_counter, lastPolled, sameRun>>

\* lines 363-382: the next entry of elements[:total] is harvested (its record
\* appended), or times out, or raises; both are logged and skipped
HarvestItem ==
    /\ fpc = "items"
    /\ idx < Len(Take(elements, fargs.total))
    /\ \/ results' = Append(results, Take(elements, fargs.total)[idx + 1])
       \/ UNCHANGED results
    /\ idx' = idx + 1
    /\ UNCHANGED <<fpc, fargs, feed, path, elements, previous_count,
                   no_change_counter, lastPolled, sameRun>>

\* lines 384-385: browser.close(), return results
ReturnResults ==
    /\ fpc = "items"
    /\ idx >= Len(Take(elements, fargs.total))
    /\ fpc' = "done"
    /\ UNCHANGED <<fargs, feed, path, elements, previous_count,
                   no_change_counter, results, idx, lastPolled, sameRun>>

FeedOthers ==
    UNCHANGED <<gridVars, keyVars, pageVars, accVars, jobVars, tileVars, logVars>>

FeedNext ==
    \/ FeedGrows /\ FeedOthers
    \/ Navigate /\ FeedOthers
    \/ SearchBox /\ FeedOthers
    \/ WaitFeed /\ FeedOthers
    \/ LoopTest /\ FeedOthers
    \/ Poll /\ FeedOthers
    \/ Scroll /\ FeedOthers
    \/ Reread /\ FeedOthers
    \/ HarvestItem /\ FeedOthers
    \/ ReturnResults /\ FeedOthers

---------------------------------------------------------------------------
(* The item loop of ScraperEngine.run, src/scraper/engine.py 363-382, with  *)
(* _process_single_item (158-279) and the pages of the browser context.     *)
(* asyncio.wait_for cancels the coroutine when its 60 s are over: the       *)
(* CancelledError is raised at the await the coroutine is suspended at, and *)
(* a bare `except:` around that await catches it like any exception.        *)

MaxItems == 3

PageIdle ==
    /\ ppc = "idle"
    /\ item_i = 0
    /\ timer = "off"
    /\ pages = 0
    /\ harvested = 0
    /\ ended = "none"

\* line 361-363: the entries are read; only the main page is open
PageInit ==
    /\ ppc = "next"
    /\ item_i = 0
    /\ timer = "off"
    /\ pages = 0
    /\ harvested = 0
    /\ ended = "none"

\* the timeout of the current item expires at the await reached, if it has
\* not expired before
Expires == timer = "armed"

\* lines 363-366: the next entry; wait_for(_process_single_item(...), 60)
ItemStart ==
    /\ ppc = "next"
    /\ item_i < MaxItems
    /\ timer' = "armed"
    /\ ppc' = "click"
    /\ UNCHANGED <<item_i, pages, harvested, ended>>

\* lines 159-216: the entry's text, el.click() (outside any try), the detail
\* pane, the website link.  The click raises (line 381 logs it), or the
\* timeout expires at it (TimeoutError, line 372), or the item has a
\* website (line 222) or has none.
ItemClick ==
    /\ ppc = "click"
    /\ \/ /\ ppc' \in {"open", "tail"}
          /\ UNCHANGED <<item_i, timer, ended>>
       \/ /\ ppc' = "next"
          /\ item_i' = item_i + 1
          /\ timer' = "off"
          /\ ended' = "exception"
       \/ /\ Expires
          /\ timer' = "fired"
          /\ ppc' = "cleanup"
          /\ UNCHANGED <<item_i, ended>>
    /\ UNCHANGED <<pages, harvested>>

\* line 225: site_page = await context.new_page(), inside the try of 224
\* whose handler is the bare except of 248.  The page opens; or new_page
\* raises; or the timeout expires while the call is pending: the
\* CancelledError is caught at 248, the coroutine has no handle, and the
\* browser opens the page it was asked for or does not.
ItemOpen ==
    /\ ppc = "open"
    /\ \/ /\ pages' = pages + 1
          /\ ppc' = "enrich"
          /\ UNCHANGED timer
       \/ /\ ppc' = "tail"
          /\ UNCHANGED <<pages, timer>>
       \/ /\ Expires
          /\ timer' = "swallowed"
          /\ pages' \in {pages, pages + 1}
          /\ ppc' = "tail"
    /\ UNCHANGED <<item_i, harvested, ended>>

\* lines 226-246: the visit of the website; whatever is raised in it, the
\* cancellation included, is caught by the bare except of 245 or 246
ItemEnrich ==
    /\ ppc = "enrich"
    /\ \/ UNCHANGED timer
       \/ Expires /\ timer' = "swallowed"
    /\ ppc' = "close"
    /\ UNCHANGED <<item_i, pages, harvested, ended>>

\* line 247: finally: await site_page.close(); a cancellation that arrives
\* here is caught at 248 after the close was requested
ItemClose ==
    /\ ppc = "close"
    /\ pages' = pages - 1
    /\ \/ UNCHANGED timer
       \/ Expires /\ timer' = "swallowed"
    /\ ppc' = "tail"
    /\ UNCHANGED <<item_i, harvested, ended>>

\* lines 250-279 and 366-382: the share link (its awaits are inside a try
\* with a bare except) and the return.  The record is appended; or the item
\* yields no record or raises (line 381).  When the cancellation was caught
\* inside the coroutine, wait_for returns the record (fut.result()) or, in
\* the builds whose wait_for raises after the cancelled task has ended,
\* raises TimeoutError.
ItemTail ==
    /\ ppc = "tail"
    /\ \/ /\ harvested' = harvested + 1
          /\ ended' = "record"
          /\ ppc' = "next"
          /\ item_i' = item_i + 1
          /\ timer' = "off"
       \/ /\ ended' = "exception"
          /\ ppc' = "next"
          /\ item_i' = item_i + 1
          /\ timer' = "off"
          /\ UNCHANGED harvested
       \/ /\ timer = "swallowed"
          /\ timer' = "fired"
          /\ ppc' = "cleanup"
          /\ UNCHANGED <<item_i, harvested, ended>>
    /\ UNCHANGED pages

\* lines 372-379: except asyncio.TimeoutError: every page of the context but
\* the main one is closed
ItemTimeout ==
    /\ ppc = "cleanup"
    /\ pages' = 0
    /\ ended' = "timeout"
    /\ item_i' = item_i + 1
    /\ timer' = "off"
    /\ ppc' = "next"
    /\ UNCHANGED harvested

\* line 384: browser.close() after the last entry
PassEnd ==
    /\ ppc = "next"
    /\ item_i >= MaxItems
    /\ pages' = 0
    /\ ppc' = "done"
    /\ UNCHANGED <<item_i, timer, harvested, ended>>

PageOthers ==
    UNCHANGED <<gridVars, keyVars, feedVars, accVars, jobVars, tileVars, logVars>>

PageNext ==
    \/ ItemStart /\ PageOthers
    \/ ItemClick /\ PageOthers
    \/ ItemOpen /\ PageOthers
    \/ ItemEnrich /\ PageOthers
    \/ ItemClose /\ PageOthers
    \/ ItemTail /\ PageOthers
    \/ ItemTimeout /\ PageOthers
    \/ PassEnd /\ PageOthers

---------------------------------------------------------------------------
(* One job of src/server.py: create_job, run_scraper_async in its thread,  *)
(* and stop_job requests.  Every step holds one database call (or one      *)
(* access of active_jobs) with the local computation around it.            *)

JobId == 1

NoCfg == [total |-> 0, grid_size |-> 0]

JobIdle ==
    /\ cfg = NoCfg
    /\ status = "none"
    /\ db_results = <<>>
    /\ results_count = 0
    /\ error = "none"
    /\ active_jobs = {}
    /\ cpc = "idle"
    /\ rpc = "idle"
    /\ spc = <<>>
    /\ mode = "none"
    /\ grid_points = <<>>
    /\ ti = 0
    /\ run_results = <<>>
    /\ exc = "none"
    /\ faults = 0
    /\ runs = 0
    /\ acceptedAt = <<>>

AutoGridThreshold == 120

BatchCap == 500

StepKm == 2

\* what the model draws from ------------------------------------------------

NumStopReqs == 1

MaxFaults == 1

MaxBatch == 2

SmallTotal == 2

BulkLen == 120

\* the decimal digits of n > 0
RECURSIVE Digits(_)
Digits(n) == IF n < 10 THEN <<48 + n>> ELSE Digits(n \div 10) \o <<48 + (n % 10)>>

\* entity number n of a dense area: name "b", phone the digits of n
BulkRec(n) == Rec(<<98>>, Digits(n), NoneVal, <<>>)

Bulk == [n \in 1..BulkLen |-> BulkRec(n)]

\* what one pass can harvest when asked for no limit: a short list, with
\* repeats, of the entities RecA, RecA2, RecB, or a full feed of a dense area
Feeds == SeqsUpTo({RecA, RecA2, RecB}, MaxBatch) \cup {Bulk}

JobTotals == {SmallTotal, AutoGridThreshold + 1}

JobGridSizes == {1, 3}

JobCenter == <<Deg(27), Deg(85)>>

\* ScraperEngine.run seen from its caller (engine.py 363-385): the records of
\* elements[:total] that were harvested
PassResults(total) == {Take(f, total) : f \in Feeds}

TargetReachedStrict(remaining) == remaining < 0

\* if remaining <= 0
TargetReached(remaining) == remaining <= 0

BatchTargetCapOnly(remaining) == BatchCap

\* batch_target = min(remaining, 500)
BatchTarget(remaining) == Min(remaining, BatchCap)

InFlight == {"tile_run", "direct_run", "fb_run"}

JobInit ==
    /\ cfg \in [total : JobTotals, grid_size : JobGridSizes]
    /\ status = "pending"
    /\ db_results = <<>>
    /\ results_count = 0
    /\ error = "none"
    /\ active_jobs = {}
    /\ cpc = "start"
    /\ rpc = "unstarted"
    /\ spc = [h \in 1..NumStopReqs |-> "idle"]
    /\ mode = "none"
    /\ grid_points = <<>>
    /\ ti = 0
    /\ run_results = <<>>
    /\ exc = "none"
    /\ faults = 0
    /\ runs = 0
    /\ acceptedAt = <<>>

\* ---- create_job, src/server.py 197-225 (the state after insert_one is JobInit)

\* thread.start()
CStartThread ==
    /\ cpc = "start"
    /\ cpc' = "register"
    /\ rpc' = "start"
    /\ UNCHANGED <<cfg, docVars, active_jobs, spc, locVars, histVars, accVars>>

\* lines 221-223: active_jobs[job_id] = thread; log_to_job("Job created ...")
CRegister ==
    /\ cpc = "register"
    /\ active_jobs' = active_jobs \cup {JobId}
    /\ cpc' = "done"
    /\ UNCHANGED <<cfg, docVars, rpc, spc, locVars, histVars, accVars>>

\* ---- stop_job, src/server.py 241-256

\* job = find_one(...); if job.get("status") == "running"
SRead(h) ==
    /\ spc[h] = "idle"
    /\ spc' = [spc EXCEPT ![h] = IF status = "running" THEN "set" ELSE "rejected"]
    /\ UNCHANGED <<cfg, docVars, active_jobs, cpc, rpc, locVars, histVars, accVars>>

\* lines 250-252: update_job_status(job_id, "stopping"); log_to_job(...)
SSet(h) ==
    /\ spc[h] = "set"
    /\ status' = "stopping"
    /\ spc' = [spc EXCEPT ![h] = "done"]
    /\ acceptedAt' = IF acceptedAt = <<>> /\ rpc \in InFlight
                     THEN <<runs>> ELSE acceptedAt
    /\ UNCHANGED <<cfg, db_results, results_count, error, active_jobs, cpc, rpc,
                   locVars, faults, runs, accVars>>

\* ---- run_scraper_async, src/server.py 70-172

\* a database call of the runner raises before it changes anything
DbRaises(handler) ==
    /\ faults < MaxFaults
    /\ faults' = faults + 1
    /\ rpc' = handler
    /\ exc' = "persistence"
    /\ UNCHANGED <<cfg, docVars, active_jobs, cpc, spc, mode, grid_points, ti,
                   run_results, runs, acceptedAt, accVars>>

\* line 91: update_job_status(job_id, "running")
RStart ==
    /\ rpc = "start"
    /\ \/ /\ status' = "running"
          /\ rpc' = "mode"
          /\ UNCHANGED <<cfg, db_results, results_count, error, active_jobs, cpc,
                         spc, locVars, histVars, accVars>>
       \/ DbRaises("except")

RModeAlwaysGrid ==
    /\ rpc = "mode"
    /\ mode' = "grid"
    /\ rpc' = "lookup"
    /\ UNCHANGED <<cfg, docVars, active_jobs, cpc, spc, grid_points, ti,
                   run_results, exc, histVars, accVars>>

\* lines 93-94 and 153-155: if total_target > 120, and the branch's first log
RMode ==
    /\ rpc = "mode"
    /\ \/ /\ mode' = IF cfg.total > AutoGridThreshold THEN "grid" ELSE "direct"
          /\ rpc' = IF cfg.total > AutoGridThreshold THEN "lookup" ELSE "direct_run"
          /\ runs' = IF cfg.total > AutoGridThreshold THEN runs ELSE runs + 1
          /\ UNCHANGED <<cfg, docVars, active_jobs, cpc, spc, grid_points, ti,
                         run_results, exc, faults, acceptedAt, accVars>>
       \/ DbRaises("except")

\* lines 96-109: the location lookup, its log, and generate_grid
RLookup ==
    /\ rpc = "lookup"
    /\ \/ /\ grid_points' = generate_grid(JobCenter[1], JobCenter[2],
                                          cfg.grid_size, StepKm)
          /\ rpc' = "gen"
          /\ UNCHANGED <<cfg, docVars, active_jobs, cpc, spc, mode, ti,
                         run_results, exc, histVars, accVars>>
       \/ /\ mode' = "fallback"
          /\ rpc' = "fb_run"
          /\ runs' = runs + 1
          /\ UNCHANGED <<cfg, docVars, active_jobs, cpc, spc, grid_points, ti,
                         run_results, exc, faults, acceptedAt, accVars>>
       \/ /\ rpc' = "except"
          /\ exc' = "lookup"
          /\ UNCHANGED <<cfg, docVars, active_jobs, cpc, spc, mode, grid_points,
                         ti, run_results, histVars, accVars>>
       \/ DbRaises("except")

\* line 110: log_to_job("Grid generated ..."), then the for loop starts
RGen ==
    /\ rpc = "gen"
    /\ \/ /\ rpc' = "loop"
          /\ ti' = 0
          /\ UNCHANGED <<cfg, docVars, active_jobs, cpc, spc, mode, grid_points,
                         run_results, exc, histVars, accVars>>
       \/ DbRaises("except")

\* line 112: the for loop has no tile left
RLoopEnd ==
    /\ rpc = "loop"
    /\ ti >= Len(grid_points)
    /\ rpc' = "complete"
    /\ UNCHANGED <<cfg, docVars, active_jobs, cpc, spc, locVars, histVars, accVars>>

\* lines 112-113 with 86-88: the next tile, if not is_job_active()
RLoop ==
    /\ rpc = "loop"
    /\ ti < Len(grid_points)
    /\ \/ /\ rpc' = IF status = "running" THEN "remaining" ELSE "stop_log"
          /\ UNCHANGED <<cfg, docVars, active_jobs, cpc, spc, locVars, histVars,
                         accVars>>
       \/ DbRaises("except")

\* line 114: log_to_job("Job stopped by user.")
RStopLog ==
    /\ rpc = "stop_log"
    /\ \/ /\ rpc' = "stop_set"
          /\ UNCHANGED <<cfg, docVars, active_jobs, cpc, spc, locVars, histVars,
                         accVars>>
       \/ DbRaises("except")

\* lines 115-116: update_job_status(job_id, "stopped", len(all_results)); return
RStopSet ==
    /\ rpc = "stop_set"
    /\ \/ /\ status' = "stopped"
          /\ results_count' = Len(all_results)
          /\ rpc' = "finally"
          /\ UNCHANGED <<cfg, db_results, error, active_jobs, cpc, spc, locVars,
                         histVars, accVars>>
       \/ DbRaises("except")

\* lines 118-124: remaining, the target test, and the log of either branch
RRemaining ==
    /\ rpc = "remaining"
    /\ \/ /\ TargetReached(cfg.total - Len(all_results))
          /\ rpc' = "complete"
          /\ UNCHANGED <<cfg, docVars, active_jobs, cpc, spc, locVars, histVars,
                         accVars>>
       \/ /\ ~TargetReached(cfg.total - Len(all_results))
          /\ rpc' = "tile_run"
          /\ runs' = runs + 1
          /\ UNCHANGED <<cfg, docVars, active_jobs, cpc, spc, locVars, faults,
                         acceptedAt, accVars>>
       \/ DbRaises("except")

\* lines 127-148: scraper.run for the tile, the dedup loop, and the log; an
\* exception of run, or of the log after the merge, goes to the tile's except
RTileRun ==
    /\ rpc = "tile_run"
    /\ \/ \E batch_results \in
              PassResults(BatchTarget(cfg.total - Len(all_results))) :
            LET acc == DedupAll([all_results |-> all_results,
                                 unique_ids |-> unique_ids], batch_results)
            IN  /\ all_results' = acc.all_results
                /\ unique_ids' = acc.unique_ids
                /\ \/ /\ rpc' = "tile_save"
                      /\ UNCHANGED <<exc, faults>>
                   \/ /\ faults < MaxFaults
                      /\ faults' = faults + 1
                      /\ exc' = "persistence"
                      /\ rpc' = "tile_err"
                /\ UNCHANGED <<cfg, docVars, active_jobs, cpc, spc, mode,
                               grid_points, ti, run_results, runs, acceptedAt,
                               offered>>
       \/ /\ rpc' = "tile_err"
          /\ exc' = "run"
          /\ UNCHANGED <<cfg, docVars, active_jobs, cpc, spc, mode, grid_points,
                         ti, run_results, histVars, accVars>>

\* line 149: save_job_results(job_id, all_results), inside the tile's try
RTileSave ==
    /\ rpc = "tile_save"
    /\ \/ /\ db_results' = all_results
          /\ results_count' = Len(all_results)
          /\ ti' = ti + 1
          /\ rpc' = "loop"
          /\ UNCHANGED <<cfg, status, error, active_jobs, cpc, spc, mode,
                         grid_points, run_results, exc, histVars, accVars>>
       \/ DbRaises("tile_err")

RTileErrReraise ==
    /\ rpc = "tile_err"
    /\ rpc' = "except"
    /\ UNCHANGED <<cfg, docVars, active_jobs, cpc, spc, locVars, histVars, accVars>>

\* lines 151-152: except Exception as e: log_to_job("  Error: ...")
RTileErr ==
    /\ rpc = "tile_err"
    /\ \/ /\ ti' = ti + 1
          /\ exc' = "none"
          /\ rpc' = "loop"
          /\ UNCHANGED <<cfg, docVars, active_jobs, cpc, spc, mode, grid_points,
                         run_results, histVars, accVars>>
       \/ DbRaises("except")

\* the single pass of a branch without grid: scraper.run(full_query,
\* total_target) and save_job_results(job_id, results)
SinglePass(next) ==
    \/ \E r \in PassResults(cfg.total) :
          /\ run_results' = r
          /\ db_results' = r
          /\ results_count' = Len(r)
          /\ rpc' = next
          /\ UNCHANGED <<cfg, status, error, active_jobs, cpc, spc, mode,
                         grid_points, ti, exc, histVars, accVars>>
    \/ /\ rpc' = "except"
       /\ exc' = "run"
       /\ UNCHANGED <<cfg, docVars, active_jobs, cpc, spc, mode, grid_points,
                      ti, run_results, histVars, accVars>>
    \/ DbRaises("except")

\* lines 157-158
RDirectRun ==
    /\ rpc = "direct_run"
    /\ SinglePass("direct_log")

\* lines 159-160: log_to_job("Completed ..."); all_results = results
RDirectLog ==
    /\ rpc = "direct_log"
    /\ \/ /\ all_results' = run_results
          /\ rpc' = "complete"
          /\ UNCHANGED <<cfg, docVars, active_jobs, cpc, spc, locVars, histVars,
                         unique_ids, offered>>
       \/ DbRaises("except")

\* lines 100-101 (line 98's log went with the lookup)
RFallbackRun ==
    /\ rpc = "fb_run"
    /\ SinglePass("fb_set")

RFallbackSetError ==
    /\ rpc = "fb_set"
    /\ status' = "error"
    /\ error' = "lookup"
    /\ rpc' = "finally"
    /\ UNCHANGED <<cfg, db_results, results_count, active_jobs, cpc, spc, locVars,
                   histVars, accVars>>

\* lines 102-103: update_job_status(job_id, "completed", len(results)); return
RFallbackSet ==
    /\ rpc = "fb_set"
    /\ \/ /\ status' = "completed"
          /\ results_count' = Len(run_results)
          /\ rpc' = "finally"
          /\ UNCHANGED <<cfg, db_results, error, active_jobs, cpc, spc, locVars,
                         histVars, accVars>>
       \/ DbRaises("except")

\* line 162: update_job_status(job_id, "completed", len(all_results))
RComplete ==
    /\ rpc = "complete"
    /\ \/ /\ status' = "completed"
          /\ results_count' = Len(all_results)
          /\ rpc' = "complete_log"
          /\ UNCHANGED <<cfg, db_results, error, active_jobs, cpc, spc, locVars,
                         histVars, accVars>>
       \/ DbRaises("except")

\* line 163: log_to_job("Job completed ...")
RCompleteLog ==
    /\ rpc = "complete_log"
    /\ \/ /\ rpc' = "finally"
          /\ UNCHANGED <<cfg, docVars, active_jobs, cpc, spc, locVars, histVars,
                         accVars>>
       \/ DbRaises("except")

\* lines 165-166: except Exception as e: log_to_job("ERROR: ..."); when the
\* log raises too, the exception leaves the function through finally
RExcept ==
    /\ rpc = "except"
    /\ \/ /\ rpc' = "except_set"
          /\ UNCHANGED <<cfg, docVars, active_jobs, cpc, spc, locVars, histVars,
                         accVars>>
       \/ DbRaises("finally")

\* line 167: update_job_status(job_id, "error", error=str(e))
RExceptSet ==
    /\ rpc = "except_set"
    /\ \/ /\ status' = "error"
          /\ error' = exc
          /\ rpc' = "finally"
          /\ UNCHANGED <<cfg, db_results, results_count, active_jobs, cpc, spc,
                         locVars, histVars, accVars>>
       \/ DbRaises("finally")

\* lines 169-172: finally: if job_id in active_jobs: del active_jobs[job_id]
RFinally ==
    /\ rpc = "finally"
    /\ active_jobs' = active_jobs \ {JobId}
    /\ rpc' = "done"
    /\ UNCHANGED <<cfg, docVars, cpc, spc, locVars, histVars, accVars>>

JobOthers == UNCHANGED <<gridVars, keyVars, feedVars, pageVars, tileVars, logVars>>

JobNext ==
    \/ CStartThread /\ JobOthers
    \/ CRegister /\ JobOthers
    \/ (\E h \in 1..NumStopReqs : SRead(h)) /\ JobOthers
    \/ (\E h \in 1..NumStopReqs : SSet(h)) /\ JobOthers
    \/ RStart /\ JobOthers
    \/ RMode /\ JobOthers
    \/ RLookup /\ JobOthers
    \/ RGen /\ JobOthers
    \/ RLoopEnd /\ JobOthers
    \/ RLoop /\ JobOthers
    \/ RStopLog /\ JobOthers
    \/ RStopSet /\ JobOthers
    \/ RRemaining /\ JobOthers
    \/ RTileRun /\ JobOthers
    \/ RTileSave /\ JobOthers
    \/ RTileErr /\ JobOthers
    \/ RDirectRun /\ JobOthers
    \/ RDirectLog /\ JobOthers
    \/ RFallbackRun /\ JobOthers
    \/ RFallbackSet /\ JobOthers
    \/ RComplete /\ JobOthers
    \/ RCompleteLog /\ JobOthers
    \/ RExcept /\ JobOthers
    \/ RExceptSet /\ JobOthers
    \/ RFinally /\ JobOthers

---------------------------------------------------------------------------
(* The tile loop of run_scraper_async, src/server.py 112-152, with the     *)
(* dedup loop of lines 130-146 taken record by record.                     *)

TileIdle ==
    /\ tpc = "idle"
    /\ tile_points = <<>>
    /\ tile_i = 0
    /\ total_target = 0
    /\ tile_batch = <<>>
    /\ tile_j = 0
    /\ visited = <<>>

\* the entities the tiles of the area show
TileRecs == {RecA, RecA2, RecB}

\* lines 105-110: the locals when the for loop starts
TileInit ==
    /\ tpc = "loop"
    /\ tile_points \in {generate_grid(JobCenter[1], JobCenter[2], g, StepKm) :
                           g \in JobGridSizes}
    /\ tile_i = 0
    /\ total_target = AutoGridThreshold + 1
    /\ tile_batch = <<>>
    /\ tile_j = 0
    /\ visited = <<>>

TileAtFromEnd(points, i) == points[Len(points) - i]

\* for i, (g_lat, g_lon) in enumerate(grid_points)
TileAt(points, i) == points[i + 1]

\* line 112: the for loop has no tile left
TileLoopEnd ==
    /\ tpc = "loop"
    /\ tile_i >= Len(tile_points)
    /\ tpc' = "done"
    /\ UNCHANGED <<tile_points, tile_i, total_target, tile_batch, tile_j,
                   visited, accVars>>

\* lines 113-124: the job was stopped, or the target is reached, or the tile
\* is mined
TileNext ==
    /\ tpc = "loop"
    /\ tile_i < Len(tile_points)
    /\ \/ tpc' = "done"
       \/ /\ TargetReached(total_target - Len(all_results))
          /\ tpc' = "done"
       \/ /\ ~TargetReached(total_target - Len(all_results))
          /\ tpc' = "run"
    /\ UNCHANGED <<tile_points, tile_i, total_target, tile_batch, tile_j,
                   visited, accVars>>

\* line 127: scraper.run on the tile returns its records, or raises (lines
\* 151-152 log it and the loop goes on)
TileRun ==
    /\ tpc = "run"
    /\ visited' = Append(visited, TileAt(tile_points, tile_i))
    /\ \/ \E b \in SeqsUpTo(TileRecs,
                     Min(Min(MaxBatch, MaxOffered - Len(offered)),
                         BatchTarget(total_target - Len(all_results)))) :
             /\ tile_batch' = b
             /\ tile_j' = 0
             /\ tpc' = "merge"
             /\ UNCHANGED tile_i
       \/ /\ tile_i' = tile_i + 1
          /\ tpc' = "loop"
          /\ UNCHANGED <<tile_batch, tile_j>>
    /\ UNCHANGED <<tile_points, total_target, accVars>>

\* lines 130-146: the dedup loop takes the next record of batch_results
TileMerge ==
    /\ tpc = "merge"
    /\ tile_j < Len(tile_batch)
    /\ LET acc == DedupInsert([all_results |-> all_results,
                               unique_ids |-> unique_ids], tile_batch[tile_j + 1])
       IN  /\ all_results' = acc.all_results
           /\ unique_ids' = acc.unique_ids
    /\ offered' = Append(offered, tile_batch[tile_j + 1])
    /\ tile_j' = tile_j + 1
    /\ UNCHANGED <<tpc, tile_points, tile_i, total_target, tile_batch, visited>>

\* lines 148-152: the log and the save (or the except, when one of them
\* raises), then the next tile
TileSave ==
    /\ tpc = "merge"
    /\ tile_j >= Len(tile_batch)
    /\ tile_i' = tile_i + 1
    /\ tpc' = "loop"
    /\ UNCHANGED <<tile_points, total_target, tile_batch, tile_j, visited, accVars>>

TileOthers ==
    UNCHANGED <<gridVars, keyVars, feedVars, pageVars, jobVars, logVars>>

TileLoopNext ==
    \/ TileLoopEnd /\ TileOthers
    \/ TileNext /\ TileOthers
    \/ TileRun /\ TileOthers
    \/ TileMerge /\ TileOthers
    \/ TileSave /\ TileOthers

---------------------------------------------------------------------------
(* log_to_job, src/server.py 30-39: the logs array of the job document    *)

LogCap == 100

MaxAppends == 102

LogIdle ==
    /\ logs = <<>>
    /\ appended = <<>>

FirstN(s, n) == SubSeq(s, 1, Min(n, Len(s)))

\* "$slice": -n keeps the last n elements of the array
LastN(s, n) == SubSeq(s, Len(s) - Min(n, Len(s)) + 1, Len(s))

\* "$push": {"logs": {"$each": [message], "$slice": -100}}; the messages
\* are numbered in the order of the calls
LogToJob ==
    /\ Len(appended) < MaxAppends
    /\ LET message == Len(appended) + 1
       IN  /\ logs' = LastN(Append(logs, message), LogCap)
           /\ appended' = Append(appended, message)

LogNext ==
    LogToJob /\ UNCHANGED <<gridVars, keyVars, feedVars, pageVars, accVars,
                            jobVars, tileVars>>

---------------------------------------------------------------------------
(* Properties of the key derivation and of the grid *)

\* C3: the key follows the first applicable rule: with a non-empty trimmed
\* phone it is lowercase(trim(name))|trim(phone); else with a non-empty
\* trimmed website it is lowercase(trim(name))|trim(website); else it is
\* lowercase(trim(name))|lowercase(trim(first 20 characters of raw text)).
\* A record with both a phone and a website gets the phone-based key.
C3_KeyPrecedence ==
    kpc = "done" =>
        LET name    == Lower(Strip(OrEmpty(item.name)))
            phone   == Strip(OrEmpty(item.phone))
            website == Strip(OrEmpty(item.website))
            snippet == Lower(Strip(SubSeq(OrEmpty(item.raw_text), 1,
                                 Min(SnippetLen, Len(OrEmpty(item.raw_text))))))
        IN  /\ phone # <<>> => key = name \o Bar \o phone
            /\ (phone = <<>> /\ website # <<>>) => key = name \o Bar \o website
            /\ (phone = <<>> /\ website = <<>>) => key = name \o Bar \o snippet

C3_Witness ==
    /\ kpc = "done"
    /\ item.name = <<32, 65>>
    /\ item.phone = <<32, 53, 32>>
    /\ item.website = <<32, 88>>
    /\ key = <<97, 124, 53>>

\* C4: for radius R >= 0 and spacing S > 0 the grid has exactly
\* (2*floor(R/S)+1)^2 tiles; with S > R it is the single center tile; it is
\* never empty.
C4_GridCardinality ==
    gpc = "done" =>
        LET R    == gargs.size_km
            S    == gargs.step_km
            side == 2 * (R \div S) + 1
        IN  /\ Len(coordinates) = side * side
            /\ S > R => coordinates = <<<<gargs.center_lat, gargs.center_lon>>>>
            /\ coordinates # <<>>

C4_Witness ==
    /\ gpc = "done"
    /\ gargs.size_km = 6
    /\ gargs.step_km = 2
    /\ Len(coordinates) = 49

\* the sum of component k over s[lo..hi]
RECURSIVE SumRange(_, _, _, _)
SumRange(s, k, lo, hi) ==
    IF lo > hi THEN 0
    ELSE IF lo = hi THEN s[lo][k]
    ELSE SumRange(s, k, lo, (lo + hi) \div 2)
         + SumRange(s, k, (lo + hi) \div 2 + 1, hi)

SumOf(s, k) == SumRange(s, k, 1, Len(s))

\* C5: the tiles are the lattice points at offsets -steps..+steps (in
\* latitude steps and in longitude steps) around the center, each once, so
\* the mean latitude is center_lat and the mean longitude is center_lon.
C5_GridSymmetry ==
    gpc = "done" =>
        LET steps == gargs.size_km \div gargs.step_km
            n     == Len(coordinates)
            dlat  == LatStepDeg(gargs.step_km)
            dlon  == LonStepDeg(gargs.step_km, gargs.center_lat)
        IN  /\ {coordinates[i] : i \in 1..n}
                 = {<<gargs.center_lat + a * dlat, gargs.center_lon + b * dlon>> :
                        a \in (-steps)..steps, b \in (-steps)..steps}
            /\ \A i, j \in 1..n : coordinates[i] = coordinates[j] => i = j
            /\ SumOf(coordinates, 1) = n * gargs.center_lat
            /\ SumOf(coordinates, 2) = n * gargs.center_lon

C5_Witness ==
    /\ gpc = "done"
    /\ gargs.center_lat = Deg(60)
    /\ gargs.center_lon = Deg(85)
    /\ Len(coordinates) = 49
    /\ coordinates[1] = <<Deg(60) - 6, Deg(85) - 12>>
    /\ coordinates[49] = <<Deg(60) + 6, Deg(85) + 12>>

---------------------------------------------------------------------------
(* Properties of one collection pass *)

\* C6 as stated: when the polled count equalled the previous poll's count
\* for 5 consecutive polls, the loop has stopped and the pass returns fewer
\* than target entries.
C6_StallReturnsFewer ==
    (fpc = "done" /\ sameRun >= StallLimit) => Len(results) < fargs.total

\* C6 as amended: after 5 consecutive polls that equalled the poll before,
\* the loop has stopped although the polled count is below target; the pass
\* returns at most target entries, and fewer than target whenever the feed
\* read again after the loop still holds fewer than target entries.
C6_StallStops ==
    sameRun >= StallLimit =>
        /\ fpc \in {"reread", "items", "done"}
        /\ lastPolled[1] < fargs.total
        /\ fpc \in {"items", "done"} =>
            /\ Len(results) <= fargs.total
            /\ Len(elements) < fargs.total => Len(results) < fargs.total

C6_Witness ==
    /\ fpc = "done"
    /\ sameRun = StallLimit
    /\ lastPolled = <<2>>
    /\ fargs.total = 4
    /\ Len(elements) = 2
    /\ Len(results) = 2

C22_AtMostTarget ==
    /\ Len(results) <= fargs.total
    /\ fpc \in {"items", "done"} => Len(results) <= Len(elements)

C22_Witness ==
    /\ fpc = "done"
    /\ fargs.total = 2
    /\ lastPolled = <<2>>
    /\ elements = <<1, 2, 3>>
    /\ results = <<1, 2>>

\* C25: the loop of a pass always ends, and so does the pass: the feed's
\* count never decreasing, the loop is left after finitely many polls,
\* because the polled count reached target or because 5 polls in a row saw
\* no change; a feed that never shows an entry ends the loop by the stall
\* test too, and the pass returns the empty sequence.
C25_LoopTerminates ==
    /\ <>(fpc = "done")
    /\ [](fpc = "reread" =>
            (Len(elements) >= fargs.total \/ no_change_counter >= StallLimit))
    /\ []((fpc = "done" /\ feed = 0) => results = <<>>)
    /\ []((fpc \in {"reread", "items"} /\ feed = 0 /\ fargs.total > 0) =>
            no_change_counter = StallLimit)

C25_Witness ==
    /\ fpc = "done"
    /\ feed = 0
    /\ fargs.total = 4
    /\ path = "coord"
    /\ no_change_counter = StallLimit
    /\ lastPolled = <<0>>
    /\ results = <<>>

\* C30: a pass that is given a tile (latitude, longitude and zoom, a
\* coordinate of exactly 0 included) navigates to the tile's viewport and
\* never takes the typed-search path of a plain query.
C30_TileUsesViewport ==
    (fargs.lat # <<>> /\ fargs.lon # <<>> /\ fargs.zoom # <<>> /\ path # "none")
        => path = "coord"

\* C16: whenever an item has ended (record, timeout or exception), no page
\* opened for its enrichment is still open when the loop turns to the next
\* entry: the context holds the main page only.
C16_PagesReleased == ppc = "next" => pages = 0

---------------------------------------------------------------------------
(* Properties of the dedup loop *)

KeysOf(recs) == {ItemKey(recs[k]) : k \in 1..Len(recs)}

\* the positions of offered that hold the first record with their key
FirstSeen == {i \in 1..Len(offered) :
                \A j \in 1..(i - 1) : ItemKey(offered[j]) # ItemKey(offered[i])}

\* C2: the accumulated list is exactly the first-offered record of every
\* key, in the order offered; offering a record whose key is already
\* present leaves the list unchanged, and no offer grows it by more than 1.
C2_FirstSeenWins ==
    /\ [](/\ Len(all_results) = Cardinality(FirstSeen)
          /\ \A i \in FirstSeen :
                all_results[Cardinality({j \in FirstSeen : j <= i})] = offered[i])
    /\ [][Len(offered') = Len(offered) + 1 =>
            /\ Len(all_results') <= Len(all_results) + 1
            /\ ItemKey(offered'[Len(offered')]) \in KeysOf(all_results)
                  => all_results' = all_results]_vars

C2_Witness ==
    /\ offered = <<RecA, RecB, RecA2, RecA>>
    /\ all_results = <<RecA, RecB>>

---------------------------------------------------------------------------
(* Properties of a job *)

\* C1: in grid mining, whatever passes have run (with records, empty or
\* failed), no two records of the accumulated list have equal keys.
C1_NoDuplicateKeys ==
    mode = "grid" => Cardinality(KeysOf(all_results)) = Len(all_results)

C1_Witness ==
    /\ mode = "grid"
    /\ ti = 3
    /\ Len(all_results) = 121
    /\ all_results[1] = RecA2
    /\ all_results[2] = BulkRec(1)
    /\ all_results[121] = BulkRec(120)

\* C7: in grid mining, once the accumulated list holds target records no
\* further pass is started, whatever tiles remain, and the run does not end
\* in an error: absent a failing database call the runner never enters its
\* except handler and the status is never `error`.
C7_EarlyTargetStop ==
    /\ [][(mode = "grid" /\ Len(all_results) >= cfg.total) => (runs' = runs)]_vars
    /\ []((mode = "grid" /\ Len(all_results) >= cfg.total) =>
            /\ rpc # "tile_run"
            /\ faults = 0 => (rpc \notin {"except", "except_set"} /\ status # "error"))

C7_Witness ==
    /\ mode = "grid"
    /\ Len(grid_points) = 9
    /\ ti = 3
    /\ runs = 3
    /\ Len(all_results) = 121
    /\ rpc = "done"
    /\ status = "completed"

\* C8: a stop request accepted while pass N is in flight (any tile, the last
\* one included, or the single pass of a run without grid) is not lost: no
\* pass N+1 is started and, the run having met no exception, the job ends
\* `stopped`.
C8_StopNeverLost ==
    (acceptedAt # <<>> /\ faults = 0 /\ exc = "none" /\ status # "error") =>
        /\ runs = acceptedAt[1]
        /\ rpc = "done" => status = "stopped"

Terminal == {"stopped", "completed", "error"}

\* C9: once the status is stopped, completed or error, no write changes it
\* (stated for the runs in which no database call fails).
C9_TerminalAbsorbing ==
    [][(status \in Terminal /\ faults' = 0) => (status' = status)]_vars

LegalEdges ==
    {<<"pending", "running">>, <<"running", "stopping">>,
     <<"stopping", "stopped">>, <<"running", "completed">>,
     <<"running", "error">>}

\* C10: the status changes along the legal edges only: a job in `stopping`
\* never becomes `completed`, and `stopped` follows `stopping` only (stated
\* for the runs in which no database call fails).
C10_LegalEdges ==
    [][(status' # status /\ faults' = 0) => (<<status, status'>> \in LegalEdges)]_vars

---------------------------------------------------------------------------
(* Properties of the checkpoints and of the failures of a job *)

\* s is an initial part of t
IsPrefix(s, t) == Len(s) <= Len(t) /\ s = SubSeq(t, 1, Len(s))

\* C11: the persisted result list never shrinks: every write of it keeps
\* the records persisted before, in their order, and holds at least as many.
C11_CheckpointMonotone ==
    [][Len(db_results') >= Len(db_results) /\ IsPrefix(db_results, db_results')]_vars

C11_Witness ==
    /\ mode = "grid"
    /\ ti = 2
    /\ Len(db_results) = 121
    /\ db_results[1] = RecA2
    /\ db_results[121] = BulkRec(120)

\* C12: an exception of scraper.run for a tile leaves the accumulated list
\* and the keys as they were, is handled by the tile's except (logged) and
\* the loop goes on with the next tile; no database call failing, the job
\* never enters the fatal handler and never becomes `error`.
C12_TileFailureIsolated ==
    /\ [][(rpc = "tile_run" /\ exc' = "run") =>
            (rpc' = "tile_err" /\ all_results' = all_results
             /\ unique_ids' = unique_ids /\ status' = status)]_vars
    /\ [][(rpc = "tile_err" /\ exc = "run" /\ rpc' # rpc /\ faults' = faults) =>
            (rpc' = "loop" /\ ti' = ti + 1 /\ exc' = "none"
             /\ all_results' = all_results /\ status' = status)]_vars
    /\ []((mode = "grid" /\ faults = 0 /\ exc \in {"none", "run"}) =>
            (status # "error" /\ rpc \notin {"except", "except_set"}))

C12_Witness ==
    /\ rpc = "tile_err"
    /\ exc = "run"
    /\ ti = 1
    /\ runs = 2
    /\ all_results = <<RecA>>
    /\ db_results = <<RecA>>
    /\ status = "running"

\* C13: once a database call of the run has raised (the checkpoint write of
\* a tile included), the run terminates: no further pass is started.
C13_PersistenceFatal == [][(faults > 0) => (runs' = runs)]_vars

\* C14: with total above the threshold and no coordinates found, the run
\* makes exactly one pass, generates no grid and mines no tile, persists the
\* pass's results and the runner writes `completed`; the pass not raising,
\* the status is never `error`.
C14_LookupFallback ==
    /\ [](mode = "fallback" =>
            /\ cfg.total > AutoGridThreshold
            /\ grid_points = <<>> /\ ti = 0 /\ all_results = <<>>
            /\ runs = 1
            /\ rpc \in {"fb_set", "finally", "done"} =>
                  (exc = "none" => db_results = run_results)
            /\ exc = "none" => status # "error"
            /\ (rpc = "done" /\ exc = "none") => status \in {"completed", "stopping"})
    /\ [][(rpc = "fb_set" /\ rpc' = "finally") =>
            (status' = "completed" /\ results_count' = Len(run_results))]_vars

C14_Witness ==
    /\ mode = "fallback"
    /\ rpc = "done"
    /\ status = "completed"
    /\ runs = 1
    /\ db_results = <<RecA, RecB>>
    /\ results_count = 2

TileCapacity == 100

\* C17: the grid that is mined has at least needed_tiles tiles, where
\* needed_tiles = target div per-tile-cap + 1.
C17_AdaptiveSizing ==
    (mode = "grid" /\ grid_points # <<>>) =>
        Len(grid_points) >= (cfg.total \div TileCapacity) + 1

\* C18: at the end of every tile that was started (with new records, with
\* none, or failed with an exception caught by the tile's handler) the
\* persisted list is the accumulated list.
C18_CheckpointEveryTile == [][(ti' = ti + 1) => (db_results' = all_results')]_vars

\* C19: when the status becomes `completed` or `stopped` the persisted list
\* equals the list accumulated in memory.
C19_FinalCheckpoint ==
    [][(status' # status /\ status' \in {"completed", "stopped"}) =>
         (db_results' = IF mode' = "fallback" THEN run_results' ELSE all_results')]_vars

\* C20: the status becomes `stopped` only at the test before a tile, a tile
\* that was started runs to its end whatever the status, and when the
\* status becomes `stopped` the accumulated list (with the records of every
\* started tile) has been checkpointed.
C20_StopAtBoundary ==
    [][/\ (status' # status /\ status' = "stopped") =>
            (rpc = "stop_set" /\ db_results' = all_results')
       /\ (rpc = "tile_run" /\ rpc' # rpc) => rpc' \in {"tile_save", "tile_err"}]_vars

---------------------------------------------------------------------------
(* Properties of the run modes and of the job record *)

\* C21: the list persisted by a run without grid (total not above the
\* threshold, or the fallback after a failed lookup) never holds two records
\* with the same key, even when the single feed has two entries of one
\* entity.
C21_DirectQueryResolved ==
    mode \in {"direct", "fallback"} =>
        Cardinality(KeysOf(db_results)) = Len(db_results)

\* the branch taken follows the threshold: a total not above it gives one
\* pass with the plain query, no lookup result and no grid; a total above
\* it gives the lookup first and tile passes only over a generated grid
ModeFollowsThreshold ==
    /\ cfg.total <= AutoGridThreshold =>
          /\ mode \in {"none", "direct"}
          /\ grid_points = <<>> /\ ti = 0
          /\ runs = IF mode = "direct" THEN 1 ELSE 0
    /\ cfg.total > AutoGridThreshold =>
          /\ mode \in {"none", "grid", "fallback"}
          /\ mode = "none" => runs = 0
          /\ mode = "fallback" => (grid_points = <<>> /\ runs = 1)
          /\ (mode = "grid" /\ runs > 0) => grid_points # <<>>
    /\ rpc = "tile_run" => mode = "grid"

\* C23 as stated: the mode follows the threshold, and the same constant
\* bounds what one tile is asked for.
C23_SingleCap ==
    /\ ModeFollowsThreshold
    /\ rpc = "tile_run" =>
          BatchTarget(cfg.total - Len(all_results))
              = Min(cfg.total - Len(all_results), AutoGridThreshold)

\* C23 as amended: the mode follows the threshold 120, and a tile is asked
\* for min(remaining, 500) > 0 records, which may exceed the threshold.
C23_ModeSelection ==
    /\ ModeFollowsThreshold
    /\ rpc = "tile_run" =>
          /\ BatchTarget(cfg.total - Len(all_results))
                 = Min(cfg.total - Len(all_results), BatchCap)
          /\ BatchTarget(cfg.total - Len(all_results)) > 0

C23_Witness ==
    /\ rpc = "tile_run"
    /\ mode = "grid"
    /\ cfg.total = 121
    /\ all_results = <<>>
    /\ Len(grid_points) = 9
    /\ BatchTarget(cfg.total - Len(all_results)) = 121

\* C27: in grid mining the accumulated list never holds more than target
\* records: every tile is asked for min(remaining, 500) > 0 records with
\* remaining = target - |accumulated|, and what its pass returns adds at
\* most that many.
C27_WithinTarget ==
    mode = "grid" =>
        /\ Len(all_results) <= cfg.total
        /\ rpc = "tile_run" =>
              /\ BatchTarget(cfg.total - Len(all_results)) > 0
              /\ BatchTarget(cfg.total - Len(all_results))
                    <= cfg.total - Len(all_results)

C27_Witness ==
    /\ mode = "grid"
    /\ rpc = "tile_save"
    /\ ti = 1
    /\ cfg.total = 121
    /\ Len(all_results) = 121
    /\ all_results[1] = RecA
    /\ all_results[2] = RecB
    /\ all_results[121] = BulkRec(119)

\* C28: whenever the status is `completed` or `stopped`, the stored
\* results_count is the length of the stored results list.
C28_CountMatchesResults ==
    status \in {"completed", "stopped"} => results_count = Len(db_results)

\* C29: in every interleaving of create_job and the runner, once the run
\* has ended (its finally block done) the job's id is not in active_jobs.
C29_RegistryCleanup == rpc = "done" => JobId \notin active_jobs

---------------------------------------------------------------------------
(* Properties of the tile loop and of the job log *)

\* C24: the tiles are mined one at a time in the order generate_grid gave
\* them (a tile's pass starts only when the tile before it is merged and
\* ended), every record of a tile's results goes through the dedup loop in
\* feed order, and the accumulated list is always the records of all of
\* them so far, in that order, without those whose key came earlier.
C24_TileOrder ==
    /\ [](/\ visited = SubSeq(tile_points, 1, Len(visited))
          /\ Len(visited) = IF tpc = "merge" THEN tile_i + 1 ELSE tile_i
          /\ Len(all_results) = Cardinality(FirstSeen)
          /\ \A i \in FirstSeen :
                all_results[Cardinality({j \in FirstSeen : j <= i})] = offered[i])
    /\ [][(visited' # visited) =>
            (tpc = "run" /\ tile_j = Len(tile_batch)
             /\ visited' = Append(visited, tile_points[Len(visited) + 1]))]_vars
    /\ [][(offered' # offered) =>
            (tpc = "merge" /\ tile_j' = tile_j + 1
             /\ offered' = Append(offered, tile_batch[tile_j + 1]))]_vars
    /\ [][(tpc = "merge" /\ tpc' # tpc) => (tile_j = Len(tile_batch))]_vars

C24_Witness ==
    /\ tpc = "loop"
    /\ Len(tile_points) = 9
    /\ tile_i = 3
    /\ visited = SubSeq(tile_points, 1, 3)
    /\ offered = <<RecA, RecB, RecA2, RecB>>
    /\ all_results = <<RecA, RecB>>

\* C26: after any sequence of appends the stored log holds at most 100
\* messages, and they are the last ones appended, in the order appended.
C26_LogBoundedTail ==
    /\ Len(logs) = Min(Len(appended), LogCap)
    /\ \A k \in 1..Len(logs) :
          logs[k] = appended[Len(appended) - Len(logs) + k]

C26_Witness ==
    /\ Len(appended) = 102
    /\ Len(logs) = 100
    /\ logs[1] = 3
    /\ logs[100] = 102

---------------------------------------------------------------------------
(* Specifications *)

GridSpecInit == GridInit /\ KeyIdle /\ FeedIdle /\ PageIdle /\ AccIdle /\ JobIdle
    /\ TileIdle /\ LogIdle

GridNext ==
    GenerateGrid /\ UNCHANGED <<keyVars, feedVars, pageVars, accVars, jobVars,
                               tileVars, logVars>>

SpecGrid == GridSpecInit /\ [][GridNext]_vars

KeySpecInit == KeyInit /\ GridIdle /\ FeedIdle /\ PageIdle /\ AccIdle /\ JobIdle
    /\ TileIdle /\ LogIdle

KeyNext ==
    DeriveKey /\ UNCHANGED <<gridVars, feedVars, pageVars, accVars, jobVars,
                            tileVars, logVars>>

SpecKey == KeySpecInit /\ [][KeyNext]_vars

FeedSpecInit == FeedInit /\ GridIdle /\ KeyIdle /\ PageIdle /\ AccIdle /\ JobIdle
    /\ TileIdle /\ LogIdle

SpecFeed == FeedSpecInit /\ [][FeedNext]_vars

\* the steps of the pass itself: every await of run returns or times out
PassStep ==
    \/ Navigate
    \/ SearchBox
    \/ WaitFeed
    \/ LoopTest
    \/ Poll
    \/ Scroll
    \/ Reread
    \/ HarvestItem
    \/ ReturnResults

SpecFeedLive == FeedSpecInit /\ [][FeedNext]_vars /\ WF_feedVars(PassStep)

DedupSpecInit == AccIdle /\ GridIdle /\ KeyIdle /\ FeedIdle /\ PageIdle /\ JobIdle
    /\ TileIdle /\ LogIdle

DedupNext ==
    OfferRecord /\ UNCHANGED <<gridVars, keyVars, feedVars, pageVars, jobVars,
                              tileVars, logVars>>

SpecDedup == DedupSpecInit /\ [][DedupNext]_vars

PageSpecInit == PageInit /\ GridIdle /\ KeyIdle /\ FeedIdle /\ AccIdle /\ JobIdle
    /\ TileIdle /\ LogIdle

SpecPages == PageSpecInit /\ [][PageNext]_vars

JobSpecInit == JobInit /\ AccIdle /\ GridIdle /\ KeyIdle /\ FeedIdle /\ PageIdle
    /\ TileIdle /\ LogIdle

Spec == JobSpecInit /\ [][JobNext]_vars

TileSpecInit == TileInit /\ AccIdle /\ GridIdle /\ KeyIdle /\ FeedIdle /\ PageIdle
    /\ JobIdle /\ LogIdle

SpecTiles == TileSpecInit /\ [][TileLoopNext]_vars

LogSpecInit == LogIdle /\ AccIdle /\ GridIdle /\ KeyIdle /\ FeedIdle /\ PageIdle
    /\ JobIdle /\ TileIdle

SpecLog == LogSpecInit /\ [][LogNext]_vars

=============================================================================
